---------------------------- MODULE Spec2Model ----------------------------
(***************************************************************************)
(* State-machine model of the BNO080 SHTP driver core                      *)
(* (src/adafruit_bno080/__init__.py): packet framing, the blocking read    *)
(* loop, packet dispatch, the feature handshake, the product-id query and  *)
(* the five sensor accessors.                                              *)
(*                                                                         *)
(* The driver is single threaded and blocks inside _wait_for_packet, so    *)
(* its position is a call stack.  One stack entry is one blocking          *)
(* operation: a sensor accessor, or one run of initialize() (whose field   *)
(* arg tells whether it is inside _check_id or inside the k-th             *)
(* _enable_feature).  Time passes only while the driver polls or sleeps.   *)
(***************************************************************************)
EXTENDS Integers, Sequences, FiniteSets, TLC

(***************************************************************************)
(* Program constants.                                                      *)
(***************************************************************************)
_BNO_CHANNEL_SHTP_COMMAND == 0
BNO_CHANNEL_EXE == 1
_BNO_CHANNEL_CONTROL == 2
_BNO_CHANNEL_INPUT_SENSOR_REPORTS == 3

_BNO_CMD_GET_FEATURE_RESPONSE == 252
_BNO_CMD_SET_FEATURE_COMMAND == 253
_BNO_CMD_BASE_TIMESTAMP == 251
_SHTP_REPORT_PRODUCT_ID_RESPONSE == 248
_SHTP_REPORT_PRODUCT_ID_REQUEST == 249
_BNO_CMD_COMMAND_RESPONSE == 241

_BNO_REPORT_ACCELEROMETER == 1
_BNO_REPORT_GYROSCOPE == 2
_BNO_REPORT_MAGNETIC_FIELD == 3
_BNO_REPORT_LINEAR_ACCELERATION == 4
_BNO_REPORT_ROTATION_VECTOR == 5

_DEFAULT_REPORT_INTERVAL == 50000
_PACKET_READ_TIMEOUT == 15
_BNO_HEADER_LEN == 4

\* the default of _wait_for_packet_type's timeout parameter, in seconds
WAIT_TIMEOUT == 5
\* the argument of sleep() in _handle_packet, in seconds
RESET_SLEEP == 1
\* the data_length of the advertisement and the command byte of the
\* unsolicited initialize response, as _handle_packet tests them
ADVERTISEMENT_LENGTH == 272
UNSOLICITED_INIT == 132

\* Q-point exponents: a scalar 2 ** (q * -1) is kept as its exponent q
_Q_POINT_14_SCALAR == 14
_Q_POINT_9_SCALAR == 9
_Q_POINT_8_SCALAR == 8
_Q_POINT_4_SCALAR == 4
_GYRO_SCALAR == _Q_POINT_9_SCALAR
_ACCEL_SCALAR == _Q_POINT_8_SCALAR
_QUAT_SCALAR == _Q_POINT_14_SCALAR
_MAG_SCALAR == _Q_POINT_4_SCALAR

(***************************************************************************)
(* Bounds of the model.                                                    *)
(***************************************************************************)
\* reset packets the device sends during one host call
MaxResets == 1

(***************************************************************************)
(* Bytes, floats.                                                          *)
(***************************************************************************)
\* Python's zero-based indexing of a bytes object
At(bytes, i) == bytes[i + 1]

\* Python's bytes[a:b]: clipped to the length of the object
Slice(bytes, a, b) ==
    LET hi == IF b < Len(bytes) THEN b ELSE Len(bytes)
    IN  IF hi <= a THEN << >> ELSE [i \in 1..(hi - a) |-> bytes[a + i]]

Zeros(n) == [i \in 1..n |-> 0]

\* struct "<H", "<h" and "<I" at a zero-based offset
UnpackU16(bytes, off) == At(bytes, off) + 256 * At(bytes, off + 1)
UnpackI16(bytes, off) ==
    LET u == UnpackU16(bytes, off) IN IF u >= 32768 THEN u - 65536 ELSE u
UnpackU32(bytes, off) == UnpackU16(bytes, off) + 65536 * UnpackU16(bytes, off + 2)

\* The float m * 2^-q in lowest terms, so that equal floats are equal records.
RECURSIVE Float(_, _)
Float(m, q) ==
    IF m = 0 THEN [m |-> 0, q |-> 0]
    ELSE IF q > 0 /\ m % 2 = 0 THEN Float(m \div 2, q - 1)
    ELSE [m |-> m, q |-> q]

\* the literal 0.0
FloatZero == Float(0, 0)

(***************************************************************************)
(* Packet (the frame codec).                                               *)
(***************************************************************************)
\* (a faulty variant: the continuation bit is left in the byte count)
MaskContinuation_Kept(n) == n

\* packet_byte_count &= ~0x8000
MaskContinuation(n) == n % 32768

\* (a faulty variant: the byte count is used as read)
header_from_buffer_RawCount(packet_bytes) ==
    LET packet_byte_count == UnpackU16(packet_bytes, 0)
        diff == packet_byte_count - 4
    IN  [channel_number |-> At(packet_bytes, 2),
         sequence_number |-> At(packet_bytes, 3),
         data_length |-> IF diff > 0 THEN diff ELSE 0,
         packet_byte_count |-> packet_byte_count]

header_from_buffer(packet_bytes) ==
    LET packet_byte_count == MaskContinuation(UnpackU16(packet_bytes, 0))
        diff == packet_byte_count - 4
    IN  [channel_number |-> At(packet_bytes, 2),
         sequence_number |-> At(packet_bytes, 3),
         data_length |-> IF diff > 0 THEN diff ELSE 0,
         packet_byte_count |-> packet_byte_count]

Packet(packet_bytes) ==
    LET header == header_from_buffer(packet_bytes)
        data_end_index == header.data_length + _BNO_HEADER_LEN
    IN  [header |-> header,
         data |-> Slice(packet_bytes, _BNO_HEADER_LEN, data_end_index)]

report_id(packet) == At(packet.data, 0)
channel_number(packet) == packet.header.channel_number

\* (a faulty variant: channel 5 is taken for an error as well)
is_error_FromFive(header) ==
    IF header.channel_number >= 5 THEN TRUE
    ELSE IF header.packet_byte_count = 65535 /\ header.sequence_number = 255 THEN TRUE
    ELSE FALSE

is_error(header) ==
    IF header.channel_number > 5 THEN TRUE
    ELSE IF header.packet_byte_count = 65535 /\ header.sequence_number = 255 THEN TRUE
    ELSE FALSE


(***************************************************************************)
(* The report decoder.                                                     *)
(***************************************************************************)
\* Only the accelerometer entry is live: the other four are commented out.
_ENABLED_SENSOR_REPORTS ==
    (_BNO_REPORT_ACCELEROMETER :> [scalar |-> _ACCEL_SCALAR, count |-> 3])

\* The outcome of a call: a value, or the exception it raises.
Value(v) == [ok |-> TRUE, err |-> "", val |-> v]
Raise(e) == [ok |-> FALSE, err |-> e, val |-> << >>]

\* (a faulty variant: the report id under a base timestamp is not looked up)
_parse_report_data_NoUnwrap(packet) ==
    LET rid == report_id(packet)
    IN  IF rid \notin DOMAIN _ENABLED_SENSOR_REPORTS THEN Raise("KeyError")
        ELSE LET scalar == _ENABLED_SENSOR_REPORTS[rid].scalar
                 count == _ENABLED_SENSOR_REPORTS[rid].count
                 base_offset == 9
             IN  Value([idx \in 1..count |->
                     Float(UnpackI16(packet.data, base_offset + (idx - 1) * 2), scalar)])

_parse_report_data(packet) ==
    LET rid0 == report_id(packet)
        rid == IF rid0 = _BNO_CMD_BASE_TIMESTAMP THEN At(packet.data, 5) ELSE rid0
    IN  IF rid \notin DOMAIN _ENABLED_SENSOR_REPORTS THEN Raise("KeyError")
        ELSE LET scalar == _ENABLED_SENSOR_REPORTS[rid].scalar
                 count == _ENABLED_SENSOR_REPORTS[rid].count
                 base_offset == 9
             IN  Value([idx \in 1..count |->
                     Float(UnpackI16(packet.data, base_offset + (idx - 1) * 2), scalar)])

\* _parse_report_data takes (packet, debug=False): a call with more than two
\* positional arguments raises TypeError before the body runs.
call_parse_report_data(packet, nargs) ==
    IF nargs > 2 THEN Raise("TypeError") ELSE _parse_report_data(packet)

(***************************************************************************)
(* The five sensor accessors: the report each one waits for and the number *)
(* of positional arguments it passes to _parse_report_data.                *)
(***************************************************************************)
Accessors == {"magnetic", "quaternion", "linear_acceleration", "acceleration", "gyro"}

AccessorReport(acc) ==
    CASE acc = "magnetic" -> _BNO_REPORT_MAGNETIC_FIELD
      [] acc = "quaternion" -> _BNO_REPORT_ROTATION_VECTOR
      [] acc = "linear_acceleration" -> _BNO_REPORT_LINEAR_ACCELERATION
      [] acc = "acceleration" -> _BNO_REPORT_ACCELEROMETER
      [] acc = "gyro" -> _BNO_REPORT_GYROSCOPE

AccessorArgs(acc) ==
    CASE acc = "magnetic" -> 2
      [] acc = "quaternion" -> 3
      [] acc = "linear_acceleration" -> 2
      [] acc = "acceleration" -> 2
      [] acc = "gyro" -> 3

(***************************************************************************)
(* Requests the driver writes.                                             *)
(***************************************************************************)
\* pack_into("<I", ...)
PackU32(n) == <<n % 256, (n \div 256) % 256, (n \div 65536) % 256, (n \div 16777216) % 256>>

_get_feature_enable_report(feature_id) ==
    <<_BNO_CMD_SET_FEATURE_COMMAND, feature_id, 0, 0, 0>>
        \o PackU32(_DEFAULT_REPORT_INTERVAL) \o Zeros(8)

\* data of the product id request written by _check_id
IdRequest == <<_SHTP_REPORT_PRODUCT_ID_REQUEST, 0>>

\* (a faulty variant: the accelerometer is enabled before the gyroscope)
INIT_ORDER_Swapped ==
    <<_BNO_REPORT_ACCELEROMETER, _BNO_REPORT_GYROSCOPE, _BNO_REPORT_LINEAR_ACCELERATION,
      _BNO_REPORT_ROTATION_VECTOR, _BNO_REPORT_MAGNETIC_FIELD>>

\* the order in which initialize() enables the reports
INIT_ORDER ==
    <<_BNO_REPORT_GYROSCOPE, _BNO_REPORT_ACCELEROMETER, _BNO_REPORT_LINEAR_ACCELERATION,
      _BNO_REPORT_ROTATION_VECTOR, _BNO_REPORT_MAGNETIC_FIELD>>

(***************************************************************************)
(* Frames the device may send (the transport's receive side): the raw      *)
(* bytes left in the data buffer by one _read_packet.                      *)
(***************************************************************************)
AdvertisementFrame == <<20, 129, 0, 1>> \o <<0, 1, 4, 0>> \o Zeros(268)
ResetFrame == <<5, 128, 1, 1, 1>>
UnsolicitedInitFrame ==
    <<20, 128, 2, 1, 241, 0, 132, 0, 0, 0, 1, 0, 0, 0, 0, 0, 0, 0, 0, 0>>
IdResponseFrame ==
    <<20, 128, 2, 3, 248, 3, 3, 2, 152, 164, 152, 0, 114, 1, 0, 0, 7, 0, 0, 0>>
\* an id response whose part number is zero
IdResponseZeroFrame ==
    <<20, 128, 2, 4, 248, 3, 3, 2, 0, 0, 0, 0, 114, 1, 0, 0, 7, 0, 0, 0>>
FeatureResponseFrame(feature_id) ==
    <<21, 128, 2, feature_id, _BNO_CMD_GET_FEATURE_RESPONSE, feature_id>> \o Zeros(15)
\* a sensor report: raw values 4000, -4000, 1 and -1 at payload offset 9
SensorFrame(first, feature_id) ==
    <<21, 128, 3, feature_id, first, 0, 0, 0, 0, feature_id, 0, 0, 0>>
        \o <<160, 15, 96, 240, 1, 0, 255, 255>>
\* a frame on channel 6: an error header
ErrorFrame == <<5, 128, 6, 0, 0>>
\* a frame on channel 0 that is no advertisement: two bytes of data
CommandFrame == <<6, 128, 0, 2, 0, 0>>

RxFrames ==
    <<AdvertisementFrame, ResetFrame, UnsolicitedInitFrame, IdResponseFrame,
      IdResponseZeroFrame>>
    \o [k \in 1..5 |-> FeatureResponseFrame(INIT_ORDER[k])]
    \o [k \in 1..5 |-> SensorFrame(_BNO_CMD_BASE_TIMESTAMP, INIT_ORDER[k])]
    \o <<SensorFrame(_BNO_REPORT_ACCELEROMETER, _BNO_REPORT_ACCELEROMETER), ErrorFrame,
         CommandFrame>>

\* _read_packet: the packet built from the frame in the buffer
Packets == [i \in 1..Len(RxFrames) |-> Packet(RxFrames[i])]

IsReset(packet) ==
    channel_number(packet) = BNO_CHANNEL_EXE /\ At(packet.data, 0) = 1

(***************************************************************************)
(* The driver's state.                                                     *)
(***************************************************************************)
VARIABLES
    stack,                \* the call stack of blocking operations, outermost first
    pel,                  \* seconds since the current _wait_for_packet began
    pkt,                  \* index in Packets of the packet just read, 0 for none
    wait_for_initialize,  \* self._wait_for_initialize
    init_complete,        \* self._init_complete
    id_read,              \* self._id_read
    readings,             \* self._readings
    alive,                \* the constructor has returned
    resets,               \* reset packets received during the current host call
    sequence_number,      \* self._sequence_number, one entry per channel 0..5
    input,                \* the argument of the last call of a codec function
    output,               \* what that call returned
    ev                    \* what the last step did (observation only)

vars == <<stack, pel, pkt, wait_for_initialize, init_complete, id_read, readings,
          alive, resets, sequence_number, input, output, ev>>

\* [0, 0, 0, 0, 0, 0], indexed by channel
NoSequenceNumbers == [c \in 0..5 |-> 0]

\* _update_sequence_number: the entry of the packet's channel becomes the
\* packet's sequence number.  Nothing in the driver calls it.
_update_sequence_number(seqs, new_packet) ==
    [seqs EXCEPT ![channel_number(new_packet)] = new_packet.header.sequence_number]

\* seconds that pass in one step of the clock while the driver polls
TickSeconds == 8

\* an elapsed time past the timeout is kept as "late"
Late == WAIT_TIMEOUT + 1
Advance(el, d) == IF el + d < Late THEN el + d ELSE Late
AdvancePoll(el, d) ==
    IF el + d < _PACKET_READ_TIMEOUT THEN el + d ELSE _PACKET_READ_TIMEOUT

\* _elapsed(start_time) < timeout
WithinTimeout(el, timeout) == el < timeout

(***************************************************************************)
(* Stack entries.  el is _elapsed(start_time) of the entry's current       *)
(* _wait_for_packet_type call; susp tells whether that call was within its *)
(* timeout when the entry's _handle_packet met a reset packet ("no": it    *)
(* met none); log is the entry's                                           *)
(* transcript: the requests it wrote and the packets it accepted (by their  *)
(* index in Packets); before is readings as they were when the reset       *)
(* packet that started the entry's run of initialize() was handled.        *)
(***************************************************************************)
Begin == [t |-> "begin", channel |-> 0, data |-> << >>, pkt |-> 0]
Sent(channel, data) == [t |-> "send", channel |-> channel, data |-> data, pkt |-> 0]
Recv(i) == [t |-> "recv", channel |-> 0, data |-> << >>, pkt |-> i]

AccessorFrame(acc) ==
    [op |-> "accessor", acc |-> acc, stage |-> 0, el |-> 0, susp |-> "no", before |-> << >>, log |-> <<Begin>>]

\* _enable_feature up to its wait: the request is built and written
EnableRequest(feature_id) ==
    Sent(_BNO_CHANNEL_CONTROL, _get_feature_enable_report(feature_id))

\* (a faulty variant: _check_id asks for the product id even when it was read)
InitializeFrame_AlwaysAsks(idread) ==
    [op |-> "initialize", acc |-> "", stage |-> 0, el |-> 0, susp |-> "no", before |-> << >>,
     log |-> <<Begin, Sent(_BNO_CHANNEL_CONTROL, IdRequest)>>]

\* initialize() up to its first wait: reset(), then _check_id(), which returns
\* at once when the id was read and writes the id request otherwise.
InitializeFrame(idread) ==
    IF idread
    THEN [op |-> "initialize", acc |-> "", stage |-> 1, el |-> 0, susp |-> "no", before |-> << >>,
          log |-> <<Begin, EnableRequest(INIT_ORDER[1])>>]
    ELSE [op |-> "initialize", acc |-> "", stage |-> 0, el |-> 0, susp |-> "no", before |-> << >>,
          log |-> <<Begin, Sent(_BNO_CHANNEL_CONTROL, IdRequest)>>]

Top == stack[Len(stack)]
Below == SubSeq(stack, 1, Len(stack) - 1)

\* the channel and the report id (0 for None) the entry's
\* _wait_for_packet_type call asks for
WantedChannel(f) ==
    IF f.op = "accessor" THEN _BNO_CHANNEL_INPUT_SENSOR_REPORTS ELSE _BNO_CHANNEL_CONTROL
WantedReport(f) ==
    IF f.op = "accessor" THEN 0
    ELSE IF f.stage = 0 THEN _SHTP_REPORT_PRODUCT_ID_RESPONSE
    ELSE _BNO_CMD_GET_FEATURE_RESPONSE

\* (a faulty variant: the report id is not compared)
WaitMatches_ChannelOnly(packet, channel, rid) == channel_number(packet) = channel

\* the operation whose wait the entry is in
Waiting(f) ==
    IF f.op = "accessor" THEN "accessor"
    ELSE IF f.stage = 0 THEN "_check_id"
    ELSE "_enable_feature"

\* the test of _wait_for_packet_type
WaitMatches(packet, channel, rid) ==
    /\ channel_number(packet) = channel
    /\ (rid # 0 => report_id(packet) = rid)

\* (a faulty variant: any get feature response completes the handshake)
FeatureMatches_Any(packet, feature_id) == TRUE

\* the test of _enable_feature
FeatureMatches(packet, feature_id) == At(packet.data, 1) = feature_id

\* (a faulty variant: the rotation vector is seeded with three components)
SeedReading_AlwaysThree(feature_id) == <<FloatZero, FloatZero, FloatZero>>

\* the seed _enable_feature stores
SeedReading(feature_id) ==
    IF feature_id = _BNO_REPORT_ROTATION_VECTOR
    THEN <<FloatZero, FloatZero, FloatZero, FloatZero>>
    ELSE <<FloatZero, FloatZero, FloatZero>>

\* (a faulty variant: the other readings are dropped)
Store_DropsOthers(r, feature_id, v) == [k \in {feature_id} |-> v]

Store(r, feature_id, v) ==
    [k \in (DOMAIN r) \cup {feature_id} |-> IF k = feature_id THEN v ELSE r[k]]

\* _parse_sensor_id reads the data buffer, not the packet: 0 stands for None
_parse_sensor_id(buffer) ==
    IF At(buffer, 4) # _SHTP_REPORT_PRODUCT_ID_RESPONSE THEN 0
    ELSE UnpackU32(buffer, 4 + 4)

(***************************************************************************)
(* _handle_packet: the new flags, whether initialize() is to be re-run,    *)
(* and the exception raised, if any.                                       *)
(***************************************************************************)
\* packet.report_id in [_ENABLED_SENSOR_REPORTS]: membership in a list whose
\* one element is the whole table; a report id never equals a table.
InEnabledList(rid) == FALSE

\* the branch for the command channel (a faulty variant: id_read is kept)
HandleCommand_KeepsId(packet, same) ==
    IF packet.header.data_length = ADVERTISEMENT_LENGTH
    THEN [same EXCEPT !.wfi = TRUE, !.ic = FALSE]
    ELSE same

\* the branch for the command channel: the advertisement
HandleCommand(packet, same) ==
    IF packet.header.data_length = ADVERTISEMENT_LENGTH
    THEN [same EXCEPT !.wfi = TRUE, !.ic = FALSE, !.idr = FALSE]
    ELSE same

\* the branch for the executable channel (a faulty variant: the flag is not cleared)
HandleExecutable_KeepsFlag(packet, same) ==
    IF At(packet.data, 0) = 1 THEN [same EXCEPT !.reinit = TRUE] ELSE same

\* the branch for the executable channel: a reset packet
HandleExecutable(packet, same) ==
    IF At(packet.data, 0) = 1
    THEN [same EXCEPT !.ic = FALSE, !.reinit = TRUE]
    ELSE same

\* the branch for the control channel (a faulty variant: an unsolicited initialize
\* response that was not awaited is accepted like an awaited one)
HandleControl_NoRaise(packet, same) ==
    IF report_id(packet) = _BNO_CMD_COMMAND_RESPONSE
       /\ At(packet.data, 2) = UNSOLICITED_INIT
    THEN [same EXCEPT !.wfi = FALSE, !.ic = TRUE]
    ELSE same

\* (a faulty variant: init_complete is set and wait_for_initialize is kept)
HandleControl_KeepsAwaiting(packet, same) ==
    IF report_id(packet) = _BNO_CMD_COMMAND_RESPONSE
       /\ At(packet.data, 2) = UNSOLICITED_INIT
    THEN IF same.wfi
         THEN [same EXCEPT !.ic = TRUE]
         ELSE [same EXCEPT !.err = "ProtocolViolation"]
    ELSE same

\* the branch for the control channel: the unsolicited initialize response
HandleControl(packet, same) ==
    IF report_id(packet) = _BNO_CMD_COMMAND_RESPONSE
       /\ At(packet.data, 2) = UNSOLICITED_INIT
    THEN IF same.wfi
         THEN [same EXCEPT !.wfi = FALSE, !.ic = TRUE]
         ELSE [same EXCEPT !.err = "ProtocolViolation"]
    ELSE same

_handle_packet(packet, wfi, ic, idr) ==
    LET ch == channel_number(packet)
        same == [wfi |-> wfi, ic |-> ic, idr |-> idr, reinit |-> FALSE, err |-> ""]
    IN  IF ch = _BNO_CHANNEL_INPUT_SENSOR_REPORTS /\ InEnabledList(report_id(packet))
        \* _store_sensor_report assigns to self._reading, which does not exist
        THEN [same EXCEPT !.err = "AttributeError"]
        ELSE IF ch = _BNO_CHANNEL_SHTP_COMMAND THEN HandleCommand(packet, same)
        ELSE IF ch = BNO_CHANNEL_EXE THEN HandleExecutable(packet, same)
        ELSE IF ch = _BNO_CHANNEL_CONTROL THEN HandleControl(packet, same)
        ELSE same

(***************************************************************************)
(* Observation of a step: type names what the step did; fate and handled   *)
(* tell what became of the packet it processed (handled counts the calls   *)
(* of _handle_packet); err is the exception that ended the host call; el   *)
(* is the elapsed time at which a _wait_for_packet_type call ended (-1:    *)
(* none ended); fid is the feature whose _enable_feature returned True;    *)
(* done and log tell that a run of initialize() returned, with its         *)
(* transcript; depth is the stack depth of the entry that acted; reinit    *)
(* tells that the exception was raised on return from a re-initialization  *)
(* whose reset packet had arrived within the timeout, and interrupted      *)
(* names the operation that the reset packet had interrupted; flags holds  *)
(* _wait_for_initialize, _init_complete and _id_read as they were before   *)
(* a packet of the command channel was handled; before holds readings as   *)
(* they were when the reset packet that started the returning run of       *)
(* initialize() was handled.                                               *)
(***************************************************************************)
NoEvent ==
    [type |-> "none", fate |-> "none", handled |-> 0, err |-> "", el |-> -1,
     acc |-> "", val |-> << >>, fid |-> 0, done |-> FALSE, log |-> << >>,
     depth |-> 0, reinit |-> FALSE, interrupted |-> "", flags |-> << >>,
     before |-> << >>]

\* no codec function was called
NoCall == [f |-> "none"]

Init ==
    /\ stack = << >>
    /\ pel = 0
    /\ pkt = 0
    /\ wait_for_initialize = TRUE
    /\ init_complete = FALSE
    /\ id_read = FALSE
    /\ readings = << >>
    /\ alive = FALSE
    /\ resets = 0
    /\ sequence_number = NoSequenceNumbers
    /\ input = NoCall
    /\ output = NoCall
    /\ ev = NoEvent

\* an exception: nothing catches it, the whole call stack unwinds
Unwind(e) ==
    /\ stack' = << >>
    /\ pel' = 0
    /\ ev' = e

(***************************************************************************)
(* Host calls.                                                             *)
(***************************************************************************)
\* BNO080(): __init__ sets the fields and calls initialize()
Construct ==
    /\ stack = << >>
    /\ ~alive
    /\ wait_for_initialize' = TRUE
    /\ init_complete' = FALSE
    /\ id_read' = FALSE
    /\ readings' = << >>
    /\ sequence_number' = NoSequenceNumbers
    /\ UNCHANGED <<input, output>>
    /\ stack' = <<InitializeFrame(FALSE)>>
    /\ pel' = 0
    /\ resets' = 0
    /\ ev' = [NoEvent EXCEPT !.type = "call", !.depth = 1]
    /\ UNCHANGED <<pkt, alive>>

\* one of the five sensor properties is read
CallAccessor(acc) ==
    /\ stack = << >>
    /\ alive
    /\ stack' = <<AccessorFrame(acc)>>
    /\ pel' = 0
    /\ resets' = 0
    /\ ev' = [NoEvent EXCEPT !.type = "call", !.acc = acc, !.depth = 1]
    /\ UNCHANGED <<pkt, wait_for_initialize, init_complete, id_read, readings, alive,
                   sequence_number, input, output>>

(***************************************************************************)
(* _wait_for_packet: the poll loop.                                        *)
(***************************************************************************)
Polling == stack # << >> /\ pkt = 0

\* the loop finds no data ready and time passes
Tick ==
    /\ Polling
    /\ WithinTimeout(pel, _PACKET_READ_TIMEOUT)
    /\ pel' = AdvancePoll(pel, TickSeconds)
    /\ stack' = [d \in 1..Len(stack) |->
                    [stack[d] EXCEPT !.el = Advance(stack[d].el, TickSeconds)]]
    /\ ev' = NoEvent
    /\ UNCHANGED <<pkt, wait_for_initialize, init_complete, id_read, readings,
                   alive, resets, sequence_number, input, output>>

\* data is ready and _read_packet returns packet i
Arrive(i) ==
    /\ Polling
    /\ WithinTimeout(pel, _PACKET_READ_TIMEOUT)
    /\ IsReset(Packets[i]) => resets < MaxResets
    /\ pkt' = i
    /\ resets' = IF IsReset(Packets[i]) THEN resets + 1 ELSE resets
    /\ ev' = NoEvent
    \* _wait_for_packet returns what _read_packet gave it, and nothing more
    /\ UNCHANGED <<stack, pel, wait_for_initialize, init_complete, id_read, readings,
                   alive, sequence_number, input, output>>

\* the loop ends: RuntimeError("Timed out waiting for a packet")
PollTimeout ==
    /\ Polling
    /\ ~WithinTimeout(pel, _PACKET_READ_TIMEOUT)
    /\ Unwind([NoEvent EXCEPT !.type = "error", !.err = "Timeout", !.el = Top.el,
                              !.depth = Len(stack)])
    /\ UNCHANGED <<pkt, wait_for_initialize, init_complete, id_read, readings,
                   alive, resets, sequence_number, input, output>>

(***************************************************************************)
(* _wait_for_packet_type returns the packet to its caller.                 *)
(***************************************************************************)
\* the caller loops: a new _wait_for_packet_type call, a new start_time
Retry(f) == [f EXCEPT !.el = 0]

\* a sensor accessor got a packet of its channel
AccessorGot(f, p, base) ==
    /\ UNCHANGED <<id_read, readings, alive>>
    /\ IF At(p.data, 5) # AccessorReport(f.acc)
       THEN /\ stack' = Below \o <<Retry(f)>>
            /\ pel' = 0
            /\ ev' = [base EXCEPT !.type = "discarded", !.fate = "discarded"]
       ELSE LET r == call_parse_report_data(p, AccessorArgs(f.acc))
            IN  IF r.ok
                THEN /\ stack' = Below
                     /\ pel' = 0
                     /\ ev' = [base EXCEPT !.type = "returned", !.fate = "consumed",
                                           !.val = r.val]
                ELSE Unwind([base EXCEPT !.type = "error", !.fate = "consumed",
                                         !.err = r.err])

\* _check_id got a product id response
CheckIdGot(f, p, base) ==
    /\ UNCHANGED <<readings, alive>>
    /\ pel' = 0
    /\ IF _parse_sensor_id(RxFrames[pkt]) # 0
       THEN /\ id_read' = TRUE
            /\ stack' = Below \o
                 <<[f EXCEPT !.stage = 1, !.el = 0,
                             !.log = @ \o <<Recv(pkt), EnableRequest(INIT_ORDER[1])>>]>>
            /\ ev' = [base EXCEPT !.type = "id_read", !.fate = "consumed"]
       ELSE /\ id_read' = id_read
            /\ stack' = Below \o <<Retry(f)>>
            /\ ev' = [base EXCEPT !.type = "discarded", !.fate = "discarded"]

\* _enable_feature got a get feature response
EnableGot(f, p, base) ==
    LET feature_id == INIT_ORDER[f.stage]
    IN  /\ id_read' = id_read
        /\ IF ~FeatureMatches(p, feature_id)
           THEN /\ UNCHANGED <<readings, alive>>
                /\ stack' = Below \o <<Retry(f)>>
                /\ pel' = 0
                /\ ev' = [base EXCEPT !.type = "discarded", !.fate = "discarded"]
           ELSE /\ readings' = Store(readings, feature_id, SeedReading(feature_id))
                /\ IF f.stage < Len(INIT_ORDER)
                   THEN \* initialize() goes on to the next _enable_feature
                        /\ UNCHANGED alive
                        /\ stack' = Below \o
                             <<[f EXCEPT !.stage = f.stage + 1, !.el = 0,
                                         !.log = @ \o <<Recv(pkt),
                                                 EnableRequest(INIT_ORDER[f.stage + 1])>>]>>
                        /\ pel' = 0
                        /\ ev' = [base EXCEPT !.type = "enabled", !.fate = "consumed",
                                              !.fid = feature_id]
                   ELSE \* initialize() returns
                        LET e == [base EXCEPT !.type = "enabled", !.fate = "consumed",
                                              !.fid = feature_id, !.done = TRUE,
                                              !.log = f.log \o <<Recv(pkt)>>,
                                              !.before = f.before]
                        IN  IF Below = << >>
                            THEN \* to the host
                                 /\ alive' = TRUE
                                 /\ stack' = << >>
                                 /\ pel' = 0
                                 /\ ev' = e
                            ELSE \* to the _handle_packet that met the reset packet,
                                 \* which returns to the loop of _wait_for_packet_type
                                 LET outer == Below[Len(Below)]
                                 IN  /\ UNCHANGED alive
                                     /\ IF WithinTimeout(outer.el, WAIT_TIMEOUT)
                                        THEN /\ stack' = SubSeq(Below, 1, Len(Below) - 1)
                                                           \o <<[outer EXCEPT !.susp = "no"]>>
                                             /\ pel' = 0
                                             /\ ev' = e
                                        ELSE Unwind([e EXCEPT
                                               !.type = "error", !.err = "Timeout",
                                               !.el = outer.el,
                                               !.reinit = (outer.susp = "intime"),
                                               !.interrupted = Waiting(outer)])

Returned ==
    /\ stack # << >>
    /\ pkt # 0
    /\ LET f == Top
           p == Packets[pkt]
           base == [NoEvent EXCEPT !.el = f.el, !.depth = Len(stack), !.acc = f.acc]
       IN  /\ WaitMatches(p, WantedChannel(f), WantedReport(f))
           /\ pkt' = 0
           /\ UNCHANGED <<wait_for_initialize, init_complete, resets, sequence_number, input, output>>
           /\ IF f.op = "accessor" THEN AccessorGot(f, p, base)
              ELSE IF f.stage = 0 THEN CheckIdGot(f, p, base)
              ELSE EnableGot(f, p, base)

(***************************************************************************)
(* _wait_for_packet_type hands the packet to _handle_packet.               *)
(***************************************************************************)
\* sleep(1) in _handle_packet: every pending wait grows older; the entry that
\* met the reset packet remembers how old its wait was
Sleep(s) ==
    [d \in 1..Len(s) |->
        [s[d] EXCEPT !.el = Advance(s[d].el, RESET_SLEEP),
                     !.susp = IF d # Len(s) THEN @
                              ELSE IF WithinTimeout(s[d].el, WAIT_TIMEOUT) THEN "intime"
                              ELSE "late"]]

Dispatch ==
    /\ stack # << >>
    /\ pkt # 0
    /\ LET f == Top
           p == Packets[pkt]
           h == _handle_packet(p, wait_for_initialize, init_complete, id_read)
           base == [NoEvent EXCEPT !.fate = "dispatched", !.handled = 1,
                                   !.depth = Len(stack), !.acc = f.acc,
                                   !.flags = IF channel_number(p) = _BNO_CHANNEL_SHTP_COMMAND
                                             THEN <<wait_for_initialize, init_complete,
                                                    id_read>>
                                             ELSE << >>]
       IN  /\ ~WaitMatches(p, WantedChannel(f), WantedReport(f))
           /\ pkt' = 0
           /\ wait_for_initialize' = h.wfi
           /\ init_complete' = h.ic
           /\ id_read' = h.idr
           /\ UNCHANGED <<readings, alive, resets, sequence_number, input, output>>
           /\ IF h.err # ""
              THEN Unwind([base EXCEPT !.type = "error", !.err = h.err])
              ELSE IF h.reinit
              THEN /\ stack' = Sleep(stack)
                                 \o <<[InitializeFrame(h.idr) EXCEPT !.before = readings]>>
                   /\ pel' = 0
                   /\ ev' = [base EXCEPT !.type = "reinit"]
              ELSE IF WithinTimeout(f.el, WAIT_TIMEOUT)
              THEN /\ stack' = stack
                   /\ pel' = 0
                   /\ ev' = [base EXCEPT !.type = "dispatched"]
              ELSE Unwind([base EXCEPT !.type = "error", !.err = "Timeout",
                                       !.el = f.el])

Next ==
    \/ Construct
    \/ \E acc \in Accessors : CallAccessor(acc)
    \/ Tick
    \/ \E i \in 1..Len(Packets) : Arrive(i)
    \/ PollTimeout
    \/ Returned
    \/ Dispatch

Spec == Init /\ [][Next]_vars

(***************************************************************************)
(* The codec functions on their own: _parse_report_data,                   *)
(* Packet.header_from_buffer and Packet.is_error are pure, and are applied *)
(* here, once in a behaviour, to inputs the device can send.               *)
(***************************************************************************)
driver == <<stack, pel, pkt, wait_for_initialize, init_complete, id_read, readings,
            alive, resets, sequence_number, ev>>

\* struct "<h" the other way: the two bytes of a signed 16-bit value
PackI16(v) == <<(v % 65536) % 256, (v % 65536) \div 256>>

\* a channel 3 frame: payload byte 0 is first, byte 5 is fifth, and the raw
\* values are at payload offsets 9, 11, 13 and 15
ReportFrame(first, fifth, raws) ==
    <<21, 128, 3, 7, first, 0, 0, 0, 0, fifth, 0, 0, 0>>
        \o PackI16(raws[1]) \o PackI16(raws[2]) \o PackI16(raws[3]) \o PackI16(raws[4])

\* the report ids and the raw values tried: ids in the table and outside it,
\* the base timestamp marker, and the extremes of a signed 16-bit value
ReportIdsTried == {1, 2, 5, 9}
RawsTried == {4000, -4000, -1, 32767, -32768}
HeaderBytesTried == {0, 3, 4, 5, 6, 20, 127, 128, 255}

DecodeReport(first, fifth, raws) ==
    LET bytes == ReportFrame(first, fifth, raws)
    IN  /\ input = NoCall
        /\ input' = [f |-> "_parse_report_data", bytes |-> bytes,
                     first |-> first, fifth |-> fifth, raws |-> raws]
        /\ output' = _parse_report_data(Packet(bytes))
        /\ UNCHANGED driver

ParseHeader(bytes) ==
    LET header == header_from_buffer(bytes)
    IN  /\ input = NoCall
        /\ input' = [f |-> "header_from_buffer", bytes |-> bytes]
        /\ output' = [header |-> header, is_error |-> is_error(header)]
        /\ UNCHANGED driver

\* PacketHeader(channel_number, sequence_number, data_length, packet_byte_count)
PacketHeader(channel, sequence, data_length, byte_count) ==
    [channel_number |-> channel, sequence_number |-> sequence,
     data_length |-> data_length, packet_byte_count |-> byte_count]

\* the header fields tried for is_error: both sides of each comparison
ChannelsTried == {0, 4, 5, 6, 255}
ByteCountsTried == {0, 4, 5, 32767, 65534, 65535}
SequencesTried == {0, 1, 254, 255}

CheckError(header) ==
    /\ input = NoCall
    /\ input' = [f |-> "is_error", header |-> header]
    /\ output' = [is_error |-> is_error(header)]
    /\ UNCHANGED driver

NextCodec ==
    \/ \E first \in ReportIdsTried \cup {_BNO_CMD_BASE_TIMESTAMP},
          fifth \in ReportIdsTried, r1, r2, r3 \in RawsTried :
            DecodeReport(first, fifth, <<r1, r2, r3, -1>>)
    \/ \E b0, b1, b2, b3 \in HeaderBytesTried : ParseHeader(<<b0, b1, b2, b3>>)
    \/ \E channel \in ChannelsTried, sequence \in SequencesTried,
          byte_count \in ByteCountsTried, data_length \in {0, 1} :
            CheckError(PacketHeader(channel, sequence, data_length, byte_count))

SpecCodec == Init /\ [][NextCodec]_vars

(***************************************************************************)
(*                              Properties                                 *)
(***************************************************************************)
\* the packet just read, and what the innermost wait asked for
Current == Packets[pkt]
Processing == pkt # 0 /\ stack # << >>

\* The table as the documentation states it: the components and the Q-point
\* exponent of each accessor's report.
StatedCount(acc) == IF acc = "quaternion" THEN 4 ELSE 3
StatedExponent(acc) ==
    CASE acc = "acceleration" -> 8
      [] acc = "gyro" -> 9
      [] acc = "magnetic" -> 4
      [] acc = "linear_acceleration" -> 8
      [] acc = "quaternion" -> 14
StatedReading(packet, acc) ==
    [idx \in 1..StatedCount(acc) |->
        Float(UnpackI16(packet.data, 9 + 2 * (idx - 1)), StatedExponent(acc))]

\* C1: when a sensor accessor is waiting and an InputSensorReports packet
\* carrying its report has been read, the accessor returns the reading decoded
\* with the stated table entry (3 or 4 components, exponents 8, 9, 4, 8, 14)
\* and does not fail.
C1_AccessorDecodes ==
    [][(/\ Processing
        /\ Top.op = "accessor"
        /\ channel_number(Current) = _BNO_CHANNEL_INPUT_SENSOR_REPORTS
        /\ At(Current.data, 5) = AccessorReport(Top.acc))
       => (/\ ev'.type = "returned"
           /\ ev'.val = StatedReading(Current, Top.acc))]_vars

\* C2 as stated: every packet read is consumed by the operation that asked
\* for it or is passed to _handle_packet exactly once, before the next packet
\* is read.
C2_NoPacketDropped ==
    [][Processing =>
        (/\ pkt' = 0
         /\ \/ ev'.fate = "consumed" /\ ev'.handled = 0
            \/ ev'.fate = "dispatched" /\ ev'.handled = 1)]_vars

\* C2 as amended: every packet read is, before the next one is read, either
\* returned by _wait_for_packet_type to its caller, exactly when its channel
\* and (where one is given) its report id are the requested ones, or passed
\* to _handle_packet exactly once; the caller consumes the returned packet
\* or discards it without dispatching it.
C2_ReturnedOrDispatched ==
    [][Processing =>
        LET asked ==
              /\ channel_number(Current) = WantedChannel(Top)
              /\ \/ WantedReport(Top) = 0
                 \/ At(Current.data, 0) = WantedReport(Top)
        IN  /\ pkt' = 0
            /\ IF asked
               THEN ev'.handled = 0 /\ ev'.fate \in {"consumed", "discarded"}
               ELSE ev'.handled = 1 /\ ev'.fate = "dispatched"]_vars

\* a returned packet was discarded by the caller of the wait
C2_Witness == ev.fate = "discarded" /\ ev.handled = 0

\* C3: every _wait_for_packet_type call ends, by returning a packet or by
\* raising, no later than its timeout after it was called.
C3_WaitBoundedByTimeout == ev.el <= WAIT_TIMEOUT

\* C4: _enable_feature(report_id) returns True only in the step that processes
\* a Control-channel get feature response (0xFC) whose payload byte 1 is
\* report_id, read after the set feature request for report_id was written
\* (the request is the last entry of the run's transcript); any other packet
\* leaves the call pending or ends it with an exception.
C4_HandshakeMatches ==
    [][/\ ev'.fid # 0 =>
            /\ Processing
            /\ Top.op = "initialize"
            /\ Top.stage >= 1
            /\ channel_number(Current) = _BNO_CHANNEL_CONTROL
            /\ At(Current.data, 0) = 252
            /\ At(Current.data, 1) = ev'.fid
            /\ LET last == Top.log[Len(Top.log)]
               IN  /\ last.t = "send"
                   /\ last.channel = _BNO_CHANNEL_CONTROL
                   /\ At(last.data, 0) = 253
                   /\ At(last.data, 1) = ev'.fid
       /\ (/\ Processing
           /\ Top.op = "initialize"
           /\ Top.stage >= 1
           /\ ~(/\ channel_number(Current) = _BNO_CHANNEL_CONTROL
                /\ At(Current.data, 0) = 252
                /\ At(Current.data, 1) = At(Top.log[Len(Top.log)].data, 1)))
          => /\ ev'.fid = 0
             /\ \/ ev'.type = "error"
                \/ /\ Len(stack') >= Len(stack)
                   /\ stack'[Len(stack)].stage = Top.stage]_vars

\* an _enable_feature call returned True for the rotation vector
C4_Witness == ev.fid = _BNO_REPORT_ROTATION_VECTOR /\ ev.fate = "consumed"

(***************************************************************************)
(* The driver runs whenever it can, and time does not stop: the steps of   *)
(* the driver are weakly fair, the clock is strongly fair (packets cannot  *)
(* arrive for ever without time passing).  The device may send whatever it *)
(* likes, or nothing.                                                      *)
(***************************************************************************)
SpecFair ==
    /\ Init /\ [][Next]_vars
    /\ SF_vars(Tick)
    /\ WF_vars(PollTimeout)
    /\ WF_vars(Returned)
    /\ WF_vars(Dispatch)

\* the constructor's initialize() is inside its k-th _enable_feature
Enabling(k) ==
    /\ stack # << >>
    /\ stack[1].op = "initialize"
    /\ stack[1].stage = k

\* C5: every _enable_feature call ends: with the matching response, or, when
\* that never arrives, with a Timeout, whatever else the device sends.
C5_EnableFeatureEnds == \A k \in 1..5 : Enabling(k) ~> ~Enabling(k)

\* the set feature requests of a transcript, in the order they were written
IsSetFeature(e) ==
    e.t = "send" /\ e.channel = _BNO_CHANNEL_CONTROL /\ At(e.data, 0) = 253
SetFeatureIds(log) ==
    LET requests == SelectSeq(log, IsSetFeature)
    IN  [i \in 1..Len(requests) |-> At(requests[i].data, 1)]

\* the order as the documentation states it: gyroscope, accelerometer,
\* linear acceleration, rotation vector, magnetic field
StatedOrder == <<2, 1, 4, 5, 3>>

IsPrefix(a, b) == Len(a) <= Len(b) /\ a = SubSeq(b, 1, Len(a))

\* entry e of a transcript is the accepted get feature response for feature_id
IsFeatureAck(e, feature_id) ==
    /\ e.t = "recv"
    /\ channel_number(Packets[e.pkt]) = _BNO_CHANNEL_CONTROL
    /\ At(Packets[e.pkt].data, 0) = 252
    /\ At(Packets[e.pkt].data, 1) = feature_id

\* the set feature requests of one run of initialize() are written in the
\* stated order, each but the first right after the response to the one before
OrderedHandshakes(log) ==
    /\ IsPrefix(SetFeatureIds(log), StatedOrder)
    /\ \A i \in 1..Len(log) :
          (IsSetFeature(log[i]) /\ At(log[i].data, 1) # StatedOrder[1])
          => (i > 1 /\ \E k \in 1..4 :
                          /\ At(log[i].data, 1) = StatedOrder[k + 1]
                          /\ IsFeatureAck(log[i - 1], StatedOrder[k]))

\* C6 as stated: the set feature requests are written in the stated order,
\* each after the response to the one before, and never are two handshakes
\* outstanding.
C6_NeverTwoOutstanding ==
    /\ \A d \in 1..Len(stack) : OrderedHandshakes(stack[d].log)
    /\ Cardinality({d \in 1..Len(stack) :
                       stack[d].op = "initialize" /\ stack[d].stage >= 1}) <= 1

\* C6 as amended: within each run of initialize() the set feature requests are
\* written in the stated order, each after the response to the one before; a
\* run that returns has written all five.  (A reset packet dispatched during a
\* handshake starts a nested run while that handshake is still outstanding.)
\* Only the innermost call writes, so its transcript is the one that grows.
C6_OrderedPerRun ==
    /\ stack # << >> => OrderedHandshakes(Top.log)
    /\ ev.done => (OrderedHandshakes(ev.log) /\ SetFeatureIds(ev.log) = StatedOrder)

\* the constructor's initialize() returned
C6_Witness == ev.done /\ ev.depth = 1 /\ ev.type = "enabled"

\* C7: the step that dispatches a reset packet clears init_complete and
\* starts a run of initialize(); the run writes the set feature requests in
\* the stated order and has written all five when it returns.
C7_ResetReinitializes ==
    /\ [][(Processing /\ channel_number(Current) = 1 /\ At(Current.data, 0) = 1)
          => (/\ ev'.handled = 1
              /\ ~init_complete'
              /\ Len(stack') = Len(stack) + 1
              /\ stack'[Len(stack')].op = "initialize"
              /\ stack'[Len(stack')].log[1].t = "begin"
              /\ IsPrefix(SetFeatureIds(stack'[Len(stack')].log), StatedOrder))]_vars
    /\ [](\A d \in 2..Len(stack) :
              IsPrefix(SetFeatureIds(stack[d].log), StatedOrder))
    /\ []((ev.done /\ ev.depth > 1) => SetFeatureIds(ev.log) = StatedOrder)

\* a re-initialization started by a reset packet returned
C7_Witness == ev.done /\ ev.depth = 2 /\ ev.type = "enabled"

\* C8: a sensor accessor or an _enable_feature handshake that a reset packet
\* interrupted within its timeout does not fail when the re-initialization,
\* all of whose requests the device answered, returns.
C8_ResetRecovered ==
    ~(/\ ev.done
      /\ ev.depth > 1
      /\ ev.reinit
      /\ ev.interrupted \in {"accessor", "_enable_feature"}
      /\ ev.type = "error")

\* C9: the step that dispatches a Control-channel command response (0xF1)
\* whose payload byte 2 is 0x84 clears awaiting_initialize and sets
\* init_complete if awaiting_initialize was set; otherwise it fails with a
\* ProtocolViolation and leaves the three lifecycle flags as they were.
C9_UnsolicitedInit ==
    [][(/\ Processing
        /\ channel_number(Current) = 2
        /\ At(Current.data, 0) = 241
        /\ At(Current.data, 2) = 132)
       => IF wait_for_initialize
          THEN /\ ev'.handled = 1
               /\ ~wait_for_initialize'
               /\ init_complete'
               /\ ev'.err # "ProtocolViolation"
          ELSE /\ ev'.handled = 1
               /\ ev'.type = "error"
               /\ ev'.err = "ProtocolViolation"
               /\ UNCHANGED <<wait_for_initialize, init_complete, id_read>>]_vars

\* an unsolicited initialize response arrived when none was awaited
C9_Witness == ev.type = "error" /\ ev.err = "ProtocolViolation" /\ ~wait_for_initialize

\* C10: a packet whose header is an error header is neither returned to the
\* waiting caller nor passed to _handle_packet: the read loop fails with a
\* protocol error.
C10_ErrorFrameRejected ==
    [][(Processing /\ is_error(Current.header))
       => (/\ ev'.type = "error"
           /\ ev'.err = "ProtocolViolation"
           /\ ev'.handled = 0
           /\ ev'.fate = "none")]_vars

\* the step in which _read_packet hands a packet to the driver
Received == pkt = 0 /\ pkt' # 0

\* C11: when a packet is received on a channel 0..5, the entry of that channel
\* in sequence_number becomes the packet's sequence number (the last seen one,
\* whatever was seen before).
C11_SequenceTracked ==
    [][(Received /\ channel_number(Packets[pkt']) \in 0..5)
         => sequence_number'[channel_number(Packets[pkt'])]
              = Packets[pkt'].header.sequence_number]_vars


\* the product id requests of a transcript
IsIdRequest(e) ==
    e.t = "send" /\ e.channel = _BNO_CHANNEL_CONTROL /\ At(e.data, 0) = 249
IdRequests(log) == Len(SelectSeq(log, IsIdRequest))

\* a run of initialize(), and with it a call of _check_id, begins in this step
ChecksId == Len(stack') = Len(stack) + 1 /\ stack'[Len(stack')].op = "initialize"

\* C12: a _check_id call that finds id_read set writes no product id request
\* and waits for nothing (the run goes straight to its first set feature
\* request) and leaves id_read set; one that finds it clear writes one
\* product id request on the control channel; no run writes a second one; and
\* id_read becomes true only in the step that accepts a control channel
\* packet whose report id is the product id response.
C12_CheckIdIdempotent ==
    /\ [][ChecksId =>
            LET run == stack'[Len(stack')]
            IN  IF id_read'
                THEN run.stage = 1 /\ IdRequests(run.log) = 0
                ELSE /\ run.stage = 0
                     /\ run.log = <<Begin, Sent(2, <<249, 0>>)>>]_vars
    /\ [][(~id_read /\ id_read') =>
            (/\ Processing
             /\ channel_number(Current) = 2
             /\ report_id(Current) = 248
             /\ ev'.fate = "consumed")]_vars
    /\ [](stack # << >> => IdRequests(Top.log) <= 1)

\* a re-initialization found the product id already read
C12_Witness ==
    /\ Len(stack) = 2
    /\ id_read
    /\ Top.op = "initialize"
    /\ Top.stage = 1
    /\ Len(Top.log) = 2


\* two to the power n
RECURSIVE Pow2(_)
Pow2(n) == IF n = 0 THEN 1 ELSE 2 * Pow2(n - 1)

\* the float x is raw * 2^-exponent
IsScaled(x, raw, exponent) ==
    x.q <= exponent /\ x.m * Pow2(exponent - x.q) = raw

\* C13: _parse_report_data takes the report id from payload byte 5 when
\* payload byte 0 is 0xFB and from payload byte 0 otherwise; it fails when the
\* id is not in the table; otherwise it returns count values, value i being
\* the signed 16-bit value at payload offset 9 + 2*i times the scale of the
\* id (4000 and -4000 at 2^-8 give 15.625 = 125/8 and -15.625).
C13_DecodeReport ==
    input.f = "_parse_report_data" =>
        LET resolved == IF input.first = 251 THEN input.fifth ELSE input.first
        IN  IF resolved \notin DOMAIN _ENABLED_SENSOR_REPORTS
            THEN ~output.ok /\ output.err = "KeyError"
            ELSE LET entry == _ENABLED_SENSOR_REPORTS[resolved]
                 IN  /\ output.ok
                     /\ Len(output.val) = entry.count
                     /\ \A i \in 1..entry.count :
                           /\ IsScaled(output.val[i], input.raws[i], entry.scalar)
                           /\ (input.raws[i] = 4000 /\ entry.scalar = 8)
                                 => output.val[i] = [m |-> 125, q |-> 3]
                           /\ (input.raws[i] = -4000 /\ entry.scalar = 8)
                                 => output.val[i] = [m |-> -125, q |-> 3]

\* a report under a base timestamp was decoded, with 4000 and -4000 in it
C13_Witness ==
    /\ input.f = "_parse_report_data"
    /\ input.first = 251
    /\ output.ok
    /\ input.raws[1] = 4000
    /\ input.raws[2] = -4000


\* C14: of a 4-byte header, the channel is byte 2, the sequence number byte 3,
\* the byte count the little-endian value of bytes 0 and 1 without bit 15, and
\* the data length the byte count less 4, or 0; writing the byte count, the
\* channel and the sequence number back as 4 bytes gives the input with the
\* top bit of byte 1 cleared.
C14_HeaderRoundTrip ==
    input.f = "header_from_buffer" =>
        LET b == input.bytes
            h == output.header
        IN  /\ h.channel_number = b[3]
            /\ h.sequence_number = b[4]
            /\ h.packet_byte_count = b[1] + 256 * (IF b[2] >= 128 THEN b[2] - 128 ELSE b[2])
            /\ h.packet_byte_count < 32768
            /\ h.data_length = (IF h.packet_byte_count > 4 THEN h.packet_byte_count - 4 ELSE 0)
            /\ <<h.packet_byte_count % 256, h.packet_byte_count \div 256,
                  h.channel_number, h.sequence_number>>
                 = <<b[1], IF b[2] >= 128 THEN b[2] - 128 ELSE b[2], b[3], b[4]>>

\* a header with the continuation bit set and data behind it was parsed
C14_Witness ==
    /\ input.f = "header_from_buffer"
    /\ input.bytes[2] >= 128
    /\ output.header.data_length > 0

\* C15: is_error is true exactly when the channel number is above 5, or the
\* byte count is 0xFFFF and the sequence number 0xFF.
C15_IsError ==
    input.f = "is_error" =>
        LET h == input.header
            all_ones == h.packet_byte_count = 65535 /\ h.sequence_number = 255
        IN  /\ output.is_error <=> (h.channel_number > 5 \/ all_ones)
            /\ (h.channel_number = 5 /\ ~all_ones) => ~output.is_error
            /\ h.channel_number = 6 => output.is_error

\* channel 5 with another byte count or sequence number was found no error
C15_Witness ==
    /\ input.f = "is_error"
    /\ input.header.channel_number = 5
    /\ input.header.packet_byte_count = 65535
    /\ input.header.sequence_number = 254
    /\ ~output.is_error


\* a sensor accessor is waiting for its report, no reset packet having
\* interrupted it
Reading == Len(stack) = 1 /\ stack[1].op = "accessor"

\* C16: a sensor accessor does not wait for ever: its call ends, with a
\* reading or with an error, whatever packets the device sends (also when
\* reports of other sensors keep arriving on its channel and its own never).
C16_AccessorEnds == Reading ~> ~Reading


\* C17: the step that dispatches a channel 3 packet whose report id is a key
\* of the table of enabled reports stores the decoded values as the latest
\* reading of that report.
C17_DispatchedReportCached ==
    [][(/\ Processing
        /\ ev'.fate = "dispatched"
        /\ channel_number(Current) = 3
        /\ report_id(Current) \in DOMAIN _ENABLED_SENSOR_REPORTS)
         => (/\ report_id(Current) \in DOMAIN readings'
             /\ readings'[report_id(Current)] = _parse_report_data(Current).val)]_vars


\* a set feature request is written in this step: by a run of initialize()
\* that begins in it, or by the innermost run going on to its next handshake
WritesSetFeature ==
    /\ stack' # << >>
    /\ Len(stack') >= Len(stack)
    /\ Len(SetFeatureIds(stack'[Len(stack')].log))
         > (IF Len(stack') = Len(stack) THEN Len(SetFeatureIds(Top.log)) ELSE 0)

\* C18: no set feature request is written before the advertisement and the
\* unsolicited initialize response were seen (init_complete is set), and
\* initialize() returns only with init_complete set and the five handshakes
\* completed.
C18_LifecycleOrder ==
    [][/\ WritesSetFeature => init_complete'
       /\ ev'.done => (init_complete' /\ SetFeatureIds(ev'.log) = StatedOrder)]_vars


\* C19: the step that dispatches a packet of channel 0 whose data length is
\* 272 sets wait_for_initialize and clears init_complete and id_read, whatever
\* they were; for any other data length it changes none of the three.
C19_AdvertisementRearms ==
    [][(Processing /\ channel_number(Current) = 0)
         => (/\ ev'.handled = 1
             /\ IF Current.header.data_length = 272
                THEN wait_for_initialize' /\ ~init_complete' /\ ~id_read'
                ELSE UNCHANGED <<wait_for_initialize, init_complete, id_read>>)]_vars

\* an advertisement arrived after the unsolicited initialize response was
\* seen and the product id read
C19_Witness ==
    /\ ev.flags = <<FALSE, TRUE, TRUE>>
    /\ wait_for_initialize
    /\ ~init_complete
    /\ ~id_read


\* C20: the step in which _enable_feature returns True leaves, as the reading
\* of its report, four zeros for the rotation vector and three for any other
\* report; the report is then among the keys of readings, and no other
\* report's reading is changed, added or removed.
C20_EnableSeedsReading ==
    [][ev'.type = "enabled" =>
         LET zero == [m |-> 0, q |-> 0]
         IN  /\ DOMAIN readings' = DOMAIN readings \cup {ev'.fid}
             /\ readings'[ev'.fid] = IF ev'.fid = 5 THEN <<zero, zero, zero, zero>>
                                     ELSE <<zero, zero, zero>>
             /\ \A k \in DOMAIN readings \ {ev'.fid} : readings'[k] = readings[k]]_vars

\* the rotation vector was enabled after the three reports before it
C20_Witness ==
    /\ ev.type = "enabled"
    /\ ev.fid = 5
    /\ Len(readings[5]) = 4
    /\ DOMAIN readings = {1, 2, 4, 5}


\* an advertisement, or a reset packet, is being handled
AdvertisementSeen ==
    Processing /\ channel_number(Current) = 0 /\ Current.header.data_length = 272
ResetSeen == Processing /\ channel_number(Current) = 1 /\ At(Current.data, 0) = 1

\* a re-initialization started by a reset packet has returned
ReinitializationDone == ev.done /\ ev.depth > 1

\* C21 as stated: an advertisement leaves readings as they were, and when the
\* re-initialization that a reset packet started has returned, readings (keys
\* and values) are what they were when the reset packet was handled.
C21_ReadingsKept ==
    /\ [][AdvertisementSeen => readings' = readings]_vars
    /\ [](ReinitializationDone => readings = ev.before)

\* the five reports, each with its seed
AllSeeded == [k \in {1, 2, 3, 4, 5} |-> SeedReading(k)]

\* C21 as amended: the step that handles an advertisement or a reset packet
\* leaves readings as they were; no step of a host call removes a key; and
\* when the re-initialization has returned, readings hold the seed of each of
\* the five reports, the keys they had before among them.
C21_ReadingsReseeded ==
    /\ [][(AdvertisementSeen \/ ResetSeen) => readings' = readings]_vars
    /\ [][stack # << >> => DOMAIN readings \subseteq DOMAIN readings']_vars
    /\ [](ReinitializationDone =>
             (readings = AllSeeded /\ DOMAIN ev.before \subseteq DOMAIN readings))

\* a reset packet met during the first initialization: the re-initialization
\* returned with more readings than there were
C21_Witness == ReinitializationDone /\ ev.type = "enabled" /\ readings # ev.before


\* C22: init_complete is never set while wait_for_initialize is: the step that
\* sets init_complete clears wait_for_initialize, and the step that sets
\* wait_for_initialize clears init_complete.
C22_CompleteNotAwaiting ==
    /\ [](init_complete => ~wait_for_initialize)
    /\ [][(~init_complete /\ init_complete') => ~wait_for_initialize']_vars
    /\ [][(~wait_for_initialize /\ wait_for_initialize') => ~init_complete']_vars

\* the constructor returned after the advertisement and the unsolicited
\* initialize response were handled
C22_Witness == alive /\ init_complete /\ ~wait_for_initialize /\ stack = << >>


\* C23: a header that header_from_buffer built has a byte count of at most
\* 0x7FFF, so is_error of it is true exactly when byte 2 of the input is above
\* 5; the bytes FF FF cc FF with cc up to 5 are not found an error.
C23_ParsedHeaderError ==
    input.f = "header_from_buffer" =>
        /\ output.header.packet_byte_count <= 32767
        /\ ~(output.header.packet_byte_count = 65535 /\ output.header.sequence_number = 255)
        /\ output.is_error <=> (input.bytes[3] > 5)
        /\ (/\ input.bytes[1] = 255
            /\ input.bytes[2] = 255
            /\ input.bytes[3] <= 5
            /\ input.bytes[4] = 255) => ~output.is_error

\* the bytes FF FF 05 FF were parsed and not found an error
C23_Witness ==
    /\ input.f = "header_from_buffer"
    /\ input.bytes = <<255, 255, 5, 255>>
    /\ ~output.is_error

=============================================================================
